---- MODULE Spec2Model ----
(***************************************************************************)
(* Disposition tables in markdown plan documents (dcosson/h2):             *)
(*   plan-incorporate/validate-dispositions.py   the single-file validator *)
(*   plan-summarize/aggregate-dispositions.py    the multi-file aggregator *)
(*                                                                         *)
(* Text is modelled character by character: a Python str is a sequence of  *)
(* one-character strings (<<"P","0">> is "P0"), a list of str a sequence   *)
(* of such sequences.  Python's None is the empty option <<>>, a present   *)
(* value x is <<x>>.  List indices and line numbers are 0-based as in the  *)
(* code; At(l, i) reads l[i].                                              *)
(***************************************************************************)
EXTENDS Integers, Sequences, FiniteSets, TLC

None == <<>>
Some(x) == <<x>>
Val(o) == o[1]

Min(S) == CHOOSE x \in S : \A y \in S : x <= y
Max(S) == CHOOSE x \in S : \A y \in S : x >= y

At(l, i) == l[i + 1]

(***************************************************************************)
(* str methods and the regular-expression pieces the code uses             *)
(***************************************************************************)
UpperCase ==
  <<"A","B","C","D","E","F","G","H","I","J","K","L","M",
    "N","O","P","Q","R","S","T","U","V","W","X","Y","Z">>
LowerCase ==
  <<"a","b","c","d","e","f","g","h","i","j","k","l","m",
    "n","o","p","q","r","s","t","u","v","w","x","y","z">>
Digits == <<"0","1","2","3","4","5","6","7","8","9">>
WhiteSpace == {" ", "\t"}

IsSpace(c) == c \in WhiteSpace
DigitSet == {Digits[k] : k \in DOMAIN Digits}
UpperSet == {UpperCase[k] : k \in DOMAIN UpperCase}
LowerSet == {LowerCase[k] : k \in DOMAIN LowerCase}
IsDigit(c) == c \in DigitSet
IsUpper(c) == c \in UpperSet
IsLower(c) == c \in LowerSet

\* str.lower(), one character
ToLower ==
  [c \in UpperSet |->
     LowerCase[CHOOSE k \in DOMAIN UpperCase : UpperCase[k] = c]]
lower_char(c) == IF IsUpper(c) THEN ToLower[c] ELSE c

\* str.lower()
lower(s) == IF s = <<>> THEN <<>> ELSE [k \in 1..Len(s) |-> lower_char(s[k])]

\* str.strip()
strip(s) ==
  LET keep == {k \in 1..Len(s) : ~IsSpace(s[k])}
  IN  IF keep = {} THEN <<>> ELSE SubSeq(s, Min(keep), Max(keep))

\* str.startswith(prefix)
startswith(s, prefix) ==
  Len(s) >= Len(prefix) /\ SubSeq(s, 1, Len(prefix)) = prefix

\* str.split(sep) and re.split(r"[...]", s) for one-character separators:
\* n separators give n + 1 parts, empty parts kept
RECURSIVE split(_, _)
split(s, seps) ==
  LET at == {k \in 1..Len(s) : s[k] \in seps}
  IN  IF at = {} THEN <<s>>
      ELSE <<SubSeq(s, 1, Min(at) - 1)>> \o split(SubSeq(s, Min(at) + 1, Len(s)), seps)

\* sep.join(parts)
RECURSIVE join(_, _)
join(parts, sep) ==
  IF parts = <<>> THEN <<>>
  ELSE IF Len(parts) = 1 THEN parts[1]
  ELSE parts[1] \o sep \o join(Tail(parts), sep)

\* int(digits)
RECURSIVE int(_)
int(d) ==
  IF d = <<>> THEN 0
  ELSE int(SubSeq(d, 1, Len(d) - 1)) * 10
       + ((CHOOSE k \in DOMAIN Digits : Digits[k] = d[Len(d)]) - 1)

\* Regular-expression steps over s from position i (1-based); a step returns
\* the position after what it consumed, and 0 when a literal does not match.
SkipSpaces(s, i) ==
  LET stop == {k \in i..Len(s) : ~IsSpace(s[k])}
  IN  IF stop = {} THEN Len(s) + 1 ELSE Min(stop)

SkipDigits(s, i) ==
  LET stop == {k \in i..Len(s) : ~IsDigit(s[k])}
  IN  IF stop = {} THEN Len(s) + 1 ELSE Min(stop)

\* a literal under re.IGNORECASE; lit is given in lowercase
Lit(s, i, lit) ==
  IF i >= 1 /\ i + Len(lit) - 1 <= Len(s)
     /\ \A k \in 1..Len(lit) : lower_char(s[i + k - 1]) = lit[k]
  THEN i + Len(lit) ELSE 0

\* Review\s+Disposition\s*$ from position i
ReviewDispositionToEnd(s, i) ==
  LET a == Lit(s, i, <<"r","e","v","i","e","w">>)
      b == SkipSpaces(s, a)
      c == Lit(s, b, <<"d","i","s","p","o","s","i","t","i","o","n">>)
      d == SkipSpaces(s, c)
  IN  a # 0 /\ b > a /\ c # 0 /\ d = Len(s) + 1

\* DISPOSITION_HEADER_RE.match(line): whether it matches, and groups 1 and 2
DISPOSITION_HEADER_RE(line) ==
  LET n  == Len(line)
      p1 == Lit(line, 1, <<"#","#">>)
      p2 == SkipSpaces(line, p1)
      \* (?:\d+[a-z]?[.)]\s*)?
      d1 == SkipDigits(line, p2)
      a1 == IF d1 <= n /\ IsLower(lower_char(line[d1])) THEN d1 + 1 ELSE d1
      hasSection == d1 > p2 /\ a1 <= n /\ line[a1] \in {".", ")"}
      p3 == IF hasSection THEN SkipSpaces(line, a1 + 1) ELSE p2
      \* (?:Round\s+(\d+)\s+)?Review\s+Disposition
      r1 == Lit(line, p3, <<"r","o","u","n","d">>)
      r2 == SkipSpaces(line, r1)
      r3 == SkipDigits(line, r2)
      r4 == SkipSpaces(line, r3)
      withRound == r1 # 0 /\ r2 > r1 /\ r3 > r2 /\ r4 > r3
                   /\ ReviewDispositionToEnd(line, r4)
      plain == ReviewDispositionToEnd(line, p3)
      \* R(\d+)\s+Review\s+Disposition
      b1 == Lit(line, p3, <<"r">>)
      b2 == SkipDigits(line, b1)
      b3 == SkipSpaces(line, b2)
      shortRound == b1 # 0 /\ b2 > b1 /\ b3 > b2
                    /\ ReviewDispositionToEnd(line, b3)
  IN  IF p1 = 0 \/ p2 = p1 THEN [matched |-> FALSE, group1 |-> None, group2 |-> None]
      ELSE IF withRound
        THEN [matched |-> TRUE, group1 |-> Some(SubSeq(line, r2, r3 - 1)), group2 |-> None]
      ELSE IF plain
        THEN [matched |-> TRUE, group1 |-> None, group2 |-> None]
      ELSE IF shortRound
        THEN [matched |-> TRUE, group1 |-> None, group2 |-> Some(SubSeq(line, b1, b2 - 1))]
      ELSE [matched |-> FALSE, group1 |-> None, group2 |-> None]

\* the truth value Python gives an optional str, an optional int or a list
TruthyStr(o) == o # None /\ Val(o) # <<>>
TruthyInt(o) == o # None /\ Val(o) # 0
\* "is not None" in the place of the truth value of a list
IsNotNone(o) == o # None
TruthyList(o) == o # None /\ Val(o) # <<>>

(***************************************************************************)
(* The constant tables                                                     *)
(***************************************************************************)
RECOGNIZED_SEVERITIES ==
  { <<"p","0">>, <<"p","1">>, <<"p","2">>, <<"p","3">>,
    <<"c","r","i","t","i","c","a","l">>, <<"b","l","o","c","k","e","r">>,
    <<"b","l","o","c","k","i","n","g">>,
    <<"h","i","g","h">>, <<"m","e","d","i","u","m">>, <<"l","o","w">>,
    <<"i","n","f","o">>, <<"i","n","f","o","r","m","a","t","i","o","n","a","l">>,
    <<"n","o","n","-","b","l","o","c","k","i","n","g">>,
    <<"n","o","n","b","l","o","c","k","i","n","g">>,
    <<"n","o","t","e">>, <<"q","u","e","s","t","i","o","n">>, <<"g","a","p">>,
    <<"n","/","a">>, <<"n","o","n","e">>, <<"u2014">> }

RECOGNIZED_DISPOSITIONS ==
  { <<"i","n","c","o","r","p","o","r","a","t","e","d">>,
    <<"i","n","c","o","r","p","o","r","a","t","e">>,
    <<"n","o","t"," ","i","n","c","o","r","p","o","r","a","t","e","d">>,
    <<"d","e","f","e","r","r","e","d">>,
    <<"a","l","r","e","a","d","y"," ","p","r","e","s","e","n","t">>,
    <<"a","c","k","n","o","w","l","e","d","g","e","d">>,
    <<"n","/","a">> }

DISPOSITION_PREFIXES ==
  << <<"i","n","c","o","r","p","o","r","a","t","e","d">>,
     <<"i","n","c","o","r","p","o","r","a","t","e">>,
     <<"n","o","t"," ","i","n","c","o","r","p","o","r","a","t","e","d">> >>

\* the canonical labels
P0 == <<"P","0">>
P1 == <<"P","1">>
P2 == <<"P","2">>
P3 == <<"P","3">>
Info == <<"I","n","f","o">>
NA == <<"N","/","A">>
Incorporated == <<"I","n","c","o","r","p","o","r","a","t","e","d">>
NotIncorporated == <<"N","o","t"," ","I","n","c","o","r","p","o","r","a","t","e","d">>
Deferred == <<"D","e","f","e","r","r","e","d">>

\* SEVERITY_MAP as a set of <<key, label>> pairs
SEVERITY_MAP ==
  { <<<<"p","0">>, P0>>, <<<<"c","r","i","t","i","c","a","l">>, P0>>,
    <<<<"b","l","o","c","k","e","r">>, P0>>, <<<<"b","l","o","c","k","i","n","g">>, P0>>,
    <<<<"p","1">>, P1>>, <<<<"h","i","g","h">>, P1>>,
    <<<<"p","2">>, P2>>, <<<<"m","e","d","i","u","m">>, P2>>,
    <<<<"p","3">>, P3>>, <<<<"l","o","w">>, P3>>,
    <<<<"i","n","f","o">>, Info>>,
    <<<<"i","n","f","o","r","m","a","t","i","o","n","a","l">>, Info>>,
    <<<<"n","o","n","-","b","l","o","c","k","i","n","g">>, Info>>,
    <<<<"n","o","n","b","l","o","c","k","i","n","g">>, Info>>,
    <<<<"n","o","t","e">>, Info>>, <<<<"q","u","e","s","t","i","o","n">>, Info>>,
    <<<<"g","a","p">>, Info>>,
    <<<<"n","/","a">>, NA>>, <<<<"n","o","n","e">>, NA>>, <<<<"u2014">>, NA>> }

InSeverityMap(p) == \E e \in SEVERITY_MAP : e[1] = p
\* a lookup that gives the key back in the place of its label
SeverityMapKey(p) == p
SeverityMapGet(p) == (CHOOSE e \in SEVERITY_MAP : e[1] = p)[2]

(***************************************************************************)
(* Row parser, column resolver, value classifier and normalizer            *)
(***************************************************************************)
\* parse_table_row(line): None, or the list of stripped cells
parse_table_row(line) ==
  LET l == strip(line)
      parts == split(l, {"|"})
      p1 == IF parts # <<>> /\ strip(parts[1]) = <<>> THEN Tail(parts) ELSE parts
      p2 == IF p1 # <<>> /\ strip(p1[Len(p1)]) = <<>>
            THEN SubSeq(p1, 1, Len(p1) - 1) ELSE p1
  IN  IF ~startswith(l, <<"|">>) THEN None
      ELSE IF p2 = <<>> THEN Some(<<>>)
      ELSE Some([k \in 1..Len(p2) |-> strip(p2[k])])

\* re.match(r"^:?-+:?$", c)
SeparatorCellRE(c) ==
  LET a == IF Len(c) >= 1 /\ c[1] = ":" THEN 2 ELSE 1
      b == IF Len(c) >= a /\ c[Len(c)] = ":" THEN Len(c) - 1 ELSE Len(c)
  IN  b >= a /\ \A k \in a..b : c[k] = "-"

is_separator_row(cells) == \A k \in 1..Len(cells) : SeparatorCellRE(cells[k])

normalize_col_name(name) == lower(strip(name))

\* find_column_index(headers, candidates): None, or the 0-based index of the
\* first header whose normalized name is a candidate
find_column_index(headers, candidates) ==
  LET hits == {k \in 1..Len(headers) : normalize_col_name(headers[k]) \in candidates}
  IN  IF hits = {} THEN None ELSE Some(Min(hits) - 1)

\* classify_severity(val): <<is_valid, normalized_value>>
classify_severity(val) ==
  LET v == lower(strip(val))
      parts == split(v, {"/", ","})
      hits == {k \in 1..Len(parts) : strip(parts[k]) \in RECOGNIZED_SEVERITIES}
  IN  IF v \in RECOGNIZED_SEVERITIES THEN <<TRUE, v>>
      ELSE IF hits # {} THEN <<TRUE, strip(parts[Min(hits)])>>
      ELSE <<FALSE, v>>

\* classify_disposition(val): <<is_valid, normalized_value>>
classify_disposition(val) ==
  LET v == lower(strip(val))
      hits == {k \in 1..Len(DISPOSITION_PREFIXES) : startswith(v, DISPOSITION_PREFIXES[k])}
  IN  IF v \in RECOGNIZED_DISPOSITIONS THEN <<TRUE, v>>
      ELSE IF hits # {} THEN <<TRUE, DISPOSITION_PREFIXES[Min(hits)]>>
      ELSE <<FALSE, v>>

\* extract_round_number(match)
extract_round_number(m) ==
  IF TruthyStr(m.group1) THEN Some(int(Val(m.group1)))
  ELSE IF TruthyStr(m.group2) THEN Some(int(Val(m.group2)))
  ELSE None

\* a normalize_severity with the verbatim lookup only, no split into parts
NormalizeSeverityVerbatim(raw) ==
  LET v == lower(strip(raw))
  IN  IF InSeverityMap(v) THEN SeverityMapGet(v) ELSE strip(raw)

\* normalize_severity(raw)
normalize_severity(raw) ==
  LET v == lower(strip(raw))
      parts == split(v, {"/", ","})
      hits == {k \in 1..Len(parts) : InSeverityMap(strip(parts[k]))}
  IN  IF hits # {} THEN SeverityMapGet(strip(parts[Min(hits)]))
      ELSE IF InSeverityMap(v) THEN SeverityMapGet(v)
      ELSE strip(raw)

\* normalize_disposition(raw)
normalize_disposition(raw) ==
  LET v == lower(strip(raw))
  IN  IF v \in { <<"i","n","c","o","r","p","o","r","a","t","e","d">>,
                 <<"i","n","c","o","r","p","o","r","a","t","e">> }
         \/ startswith(v, <<"i","n","c","o","r","p","o","r","a","t","e","d">>)
        THEN Incorporated
      ELSE IF v = <<"n","o","t"," ","i","n","c","o","r","p","o","r","a","t","e","d">>
        THEN NotIncorporated
      ELSE IF v = <<"d","e","f","e","r","r","e","d">> THEN Deferred
      ELSE IF v \in { <<"a","l","r","e","a","d","y"," ","p","r","e","s","e","n","t">>,
                      <<"a","c","k","n","o","w","l","e","d","g","e","d">> }
        THEN Incorporated
      ELSE IF v = <<"n","/","a">> THEN NA
      ELSE strip(raw)

(***************************************************************************)
(* Input documents                                                         *)
(***************************************************************************)
\* "## Review Disposition"
HeadingUnlabeled ==
  <<"#","#"," ","R","e","v","i","e","w"," ","D","i","s","p","o","s","i","t","i","o","n">>
\* "## Round 0 Review Disposition"
HeadingRound0 ==
  <<"#","#"," ","R","o","u","n","d"," ","0"," ","R","e","v","i","e","w"," ",
    "D","i","s","p","o","s","i","t","i","o","n">>
\* "## 3) R1 Review Disposition"
HeadingR1 ==
  <<"#","#"," ","3",")"," ","R","1"," ","R","e","v","i","e","w"," ",
    "D","i","s","p","o","s","i","t","i","o","n">>
\* ""
BlankLine == <<>>
\* "No new findings."
ProseLine == <<"N","o"," ","n","e","w"," ","f","i","n","d","i","n","g","s",".">>
\* "|"
PipeLine == <<"|">>
\* "| Severity | Disposition |"
HeaderFull ==
  <<"|"," ","S","e","v","e","r","i","t","y"," ","|"," ",
    "D","i","s","p","o","s","i","t","i","o","n"," ","|">>
\* "| Severity | Notes |"
HeaderNoDisposition ==
  <<"|"," ","S","e","v","e","r","i","t","y"," ","|"," ","N","o","t","e","s"," ","|">>
\* "| Finding | Notes |"
HeaderNeither ==
  <<"|"," ","F","i","n","d","i","n","g"," ","|"," ","N","o","t","e","s"," ","|">>
\* "|---|:--|"
SeparatorLine == <<"|","-","-","-","|",":","-","-","|">>
\* "| P0 | Incorporated |"
RowGood ==
  <<"|"," ","P","0"," ","|"," ","I","n","c","o","r","p","o","r","a","t","e","d"," ","|">>
\* "| zz |"
RowShort == <<"|"," ","z","z"," ","|">>
\* "| zz | qq | P0 |"
RowLong ==
  <<"|"," ","z","z"," ","|"," ","q","q"," ","|"," ","P","0"," ","|">>
\* "| zz | qq |"
RowBad == <<"|"," ","z","z"," ","|"," ","q","q"," ","|">>

\* sequences over S of length at most n
RECURSIVE SeqsUpTo(_, _)
SeqsUpTo(S, n) ==
  IF n = 0 THEN {<<>>}
  ELSE LET shorter == SeqsUpTo(S, n - 1)
       IN  shorter \cup {Append(s, x) : s \in shorter, x \in S}

\* Documents for the table locator: up to MaxLines lines of LocatorLines, alone
\* or after the opening of a table (heading, header row, separator row).
MaxLines == 4
LocatorLines ==
  {HeadingUnlabeled, BlankLine, ProseLine, PipeLine, HeaderFull, SeparatorLine, RowGood}
TableOpening == <<HeadingUnlabeled, HeaderFull, SeparatorLine>>
LocatorDocs ==
  LET free == SeqsUpTo(LocatorLines, MaxLines)
  IN  free \cup {TableOpening \o s : s \in free}

(***************************************************************************)
(* State                                                                   *)
(***************************************************************************)
VARIABLES
  tool,           \* which script runs: "locate" (the shared locator alone),
                  \* "validate" or "aggregate"
  path_kind,      \* what the path argument names: "missing", "directory", "file"
  lines,          \* text.splitlines() of the file
  pc,             \* position in the running script
  \* find_disposition_tables
  i, tables, round_num, section_start, header_cells, header_line, sep_line, rows,
  \* the callers' loop over the tables: the number of tables already handled
  t,
  \* validate_file and main of the validator
  all_errors,     \* validate_file's accumulated error list
  errs,           \* validate_file's errs: what the last validate_table call returned
  result,         \* validate_file's return value (passed, tables_found, errors)
  stdout,         \* what main printed: the verdict and the errors listed
  exit_code,      \* the status main exits with
  \* parse_file_findings of the aggregator
  unlabeled_round, findings,
  round_log,      \* the value of round_num after lines 245-247, per table reaching them
  cells_read,     \* <<row line, index, how>> of every cell read on a data row: by
                  \* "index" (cells[index]) or by "join" ('|'.join(cells))
  \* aggregate_findings of the aggregator
  counted,        \* the number of findings the first loop has handled
  per_round,      \* per_round: round |-> total and counts by disposition
  sorted_rounds,  \* sorted(per_round.keys()), once computed
  prev_total,
  convergence,
  \* a single call of a value classifier or normalizer
  value,          \* the argument
  called,         \* the function called, "" before the call
  returned        \* its return value

inputVars == <<tool, path_kind, lines>>
scanVars == <<i, tables, round_num, section_start, header_cells, header_line, sep_line, rows>>
validateVars == <<all_errors, errs, result, stdout, exit_code>>
aggregateVars == <<unlabeled_round, findings, round_log>>
callerVars == <<t, validateVars, aggregateVars, cells_read>>
callVars == <<value, called, returned>>
statsVars == <<counted, per_round, sorted_rounds, prev_total, convergence>>
vars == <<inputVars, pc, scanVars, callerVars, callVars, statsVars>>

len == Len(lines)

(***************************************************************************)
(* find_disposition_tables: the line scanner                               *)
(***************************************************************************)
Table(rnd, hline, sline, hcells, sepline, rws) ==
  [round |-> rnd, header_line |-> hline, section_header_line |-> sline,
   header_cells |-> hcells, separator_line |-> sepline, rows |-> rws,
   col_count |-> Len(hcells)]

\* no valid table after the heading: a table with no header cells and no rows
HeaderlessTable == Table(round_num, section_start, section_start, <<>>, None, <<>>)

\* SCANNING: the line is not a disposition heading
ScanLine ==
  /\ pc = "SCANNING"
  /\ i < len
  /\ ~DISPOSITION_HEADER_RE(At(lines, i)).matched
  /\ i' = i + 1
  /\ UNCHANGED <<inputVars, callerVars, callVars, statsVars, pc, tables, round_num, section_start,
                 header_cells, header_line, sep_line, rows>>

\* SCANNING: the line is a disposition heading
ScanHeading ==
  /\ pc = "SCANNING"
  /\ i < len
  /\ DISPOSITION_HEADER_RE(At(lines, i)).matched
  /\ round_num' = extract_round_number(DISPOSITION_HEADER_RE(At(lines, i)))
  /\ section_start' = i
  /\ i' = i + 1
  /\ pc' = "SKIP_BLANK"
  /\ UNCHANGED <<inputVars, callerVars, callVars, statsVars, tables, header_cells, header_line, sep_line, rows>>

\* SKIP_BLANK: a blank line between the heading and the table
SkipBlank ==
  /\ pc = "SKIP_BLANK"
  /\ i < len
  /\ strip(At(lines, i)) = <<>>
  /\ i' = i + 1
  /\ UNCHANGED <<inputVars, callerVars, callVars, statsVars, pc, tables, round_num, section_start,
                 header_cells, header_line, sep_line, rows>>

\* the first non-blank line is a row with cells: the table's header row
HeaderRow ==
  /\ pc = "SKIP_BLANK"
  /\ i < len
  /\ strip(At(lines, i)) # <<>>
  /\ TruthyList(parse_table_row(At(lines, i)))
  /\ header_cells' = Val(parse_table_row(At(lines, i)))
  /\ header_line' = i
  /\ i' = i + 1
  /\ pc' = "EXPECT_SEPARATOR_ROW"
  /\ UNCHANGED <<inputVars, callerVars, callVars, statsVars, tables, round_num, section_start, sep_line, rows>>

\* no header row: the heading is recorded as a table with no rows
NoHeaderRow ==
  /\ pc = "SKIP_BLANK"
  /\ ~(i < len /\ strip(At(lines, i)) = <<>>)
  /\ ~(i < len /\ TruthyList(parse_table_row(At(lines, i))))
  /\ tables' = Append(tables, HeaderlessTable)
  /\ i' = i + 1
  /\ pc' = "SCANNING"
  /\ UNCHANGED <<inputVars, callerVars, callVars, statsVars, round_num, section_start,
                 header_cells, header_line, sep_line, rows>>

\* EXPECT_SEPARATOR_ROW: the line after the header row is a separator row
SeparatorRow ==
  /\ pc = "EXPECT_SEPARATOR_ROW"
  /\ i < len
  /\ TruthyList(parse_table_row(At(lines, i)))
  /\ is_separator_row(Val(parse_table_row(At(lines, i))))
  /\ sep_line' = i
  /\ rows' = <<>>
  /\ i' = i + 1
  /\ pc' = "IN_DATA_ROWS"
  /\ UNCHANGED <<inputVars, callerVars, callVars, statsVars, tables, round_num, section_start,
                 header_cells, header_line>>

\* no separator row: the heading is recorded as a table with no rows
NoSeparatorRow ==
  /\ pc = "EXPECT_SEPARATOR_ROW"
  /\ ~(/\ i < len
       /\ TruthyList(parse_table_row(At(lines, i)))
       /\ is_separator_row(Val(parse_table_row(At(lines, i)))))
  /\ tables' = Append(tables, HeaderlessTable)
  /\ i' = i + 1
  /\ pc' = "SCANNING"
  /\ UNCHANGED <<inputVars, callerVars, callVars, statsVars, round_num, section_start,
                 header_cells, header_line, sep_line, rows>>

\* IN_DATA_ROWS: a data row
DataRow ==
  /\ pc = "IN_DATA_ROWS"
  /\ i < len
  /\ parse_table_row(At(lines, i)) # None
  /\ ~is_separator_row(Val(parse_table_row(At(lines, i))))
  /\ rows' = Append(rows, [line |-> i, cells |-> Val(parse_table_row(At(lines, i)))])
  /\ i' = i + 1
  /\ UNCHANGED <<inputVars, callerVars, callVars, statsVars, pc, tables, round_num, section_start,
                 header_cells, header_line, sep_line>>

\* IN_DATA_ROWS: a separator-shaped row is skipped
SkipSeparatorRow ==
  /\ pc = "IN_DATA_ROWS"
  /\ i < len
  /\ parse_table_row(At(lines, i)) # None
  /\ is_separator_row(Val(parse_table_row(At(lines, i))))
  /\ i' = i + 1
  /\ UNCHANGED <<inputVars, callerVars, callVars, statsVars, pc, tables, round_num, section_start,
                 header_cells, header_line, sep_line, rows>>

\* an end of the table that steps over the line that ended it
EndTableSkipsLine ==
  /\ pc = "IN_DATA_ROWS"
  /\ ~(i < len /\ parse_table_row(At(lines, i)) # None)
  /\ tables' = Append(tables,
                 Table(round_num, header_line, section_start, header_cells,
                       Some(sep_line), rows))
  /\ i' = i + 1
  /\ pc' = "SCANNING"
  /\ UNCHANGED <<inputVars, callerVars, callVars, statsVars, round_num, section_start,
                 header_cells, header_line, sep_line, rows>>

\* IN_DATA_ROWS: the end of the file or a line that is no row ends the table;
\* the scanner continues at that line
EndTable ==
  /\ pc = "IN_DATA_ROWS"
  /\ ~(i < len /\ parse_table_row(At(lines, i)) # None)
  /\ tables' = Append(tables,
                 Table(round_num, header_line, section_start, header_cells,
                       Some(sep_line), rows))
  /\ pc' = "SCANNING"
  /\ UNCHANGED <<inputVars, callerVars, callVars, statsVars, i, round_num, section_start,
                 header_cells, header_line, sep_line, rows>>

\* SCANNING: past the last line, the tables are returned to the caller
ScanReturn ==
  /\ pc = "SCANNING"
  /\ i >= len
  /\ pc' = "tables"
  /\ UNCHANGED <<inputVars, callerVars, callVars, statsVars, scanVars>>

find_disposition_tables ==
  \/ ScanLine \/ ScanHeading \/ SkipBlank \/ HeaderRow \/ NoHeaderRow
  \/ SeparatorRow \/ NoSeparatorRow \/ DataRow \/ SkipSeparatorRow \/ EndTable
  \/ ScanReturn

\* the locals of find_disposition_tables as the call starts
ScanStart ==
  /\ i = 0
  /\ tables = <<>>
  /\ round_num = None
  /\ section_start = 0
  /\ header_cells = <<>>
  /\ header_line = 0
  /\ sep_line = 0
  /\ rows = <<>>

\* no classifier or normalizer call
CallStart ==
  /\ value = <<>>
  /\ called = ""
  /\ returned = None

\* the locals of aggregate_findings as the call starts
StatsStart ==
  /\ counted = 0
  /\ per_round = <<>>
  /\ sorted_rounds = <<>>
  /\ prev_total = None
  /\ convergence = <<>>

\* the callers' state as a script starts
CallerStart ==
  /\ t = 0
  /\ all_errors = <<>>
  /\ errs = <<>>
  /\ result = None
  /\ stdout = None
  /\ exit_code = None
  /\ unlabeled_round = 1
  /\ findings = <<>>
  /\ round_log = <<>>
  /\ cells_read = {}

(***************************************************************************)
(* The table locator on its own                                            *)
(***************************************************************************)
InitLocate ==
  /\ tool = "locate"
  /\ path_kind = "file"
  /\ lines \in LocatorDocs
  /\ pc = "SCANNING"
  /\ ScanStart
  /\ CallerStart
  /\ CallStart
  /\ StatsStart

NextLocate == find_disposition_tables

SpecLocate == InitLocate /\ [][NextLocate]_vars

(***************************************************************************)
(* Input documents for the validator and the aggregator                    *)
(***************************************************************************)
Headings == {HeadingUnlabeled, HeadingRound0, HeadingR1}
HeaderRows == {HeaderFull, HeaderNoDisposition, HeaderNeither}
DataRows == {RowGood, RowShort, RowLong, RowBad}

\* a section: a heading alone, or a heading with a header row, a separator row
\* and data rows
Section(heading, header, datarows) == <<heading, header, SeparatorLine>> \o datarows

\* one section, with every sequence of up to MaxRows data rows
MaxRows == 2
RECURSIVE Flatten(_)
Flatten(ss) == IF ss = <<>> THEN <<>> ELSE Head(ss) \o Flatten(Tail(ss))

OneSectionDocs ==
  {<<h>> : h \in Headings}
  \cup {Section(h, hr, rs) : h \in Headings, hr \in HeaderRows,
                             rs \in SeqsUpTo(DataRows, MaxRows)}

\* several sections: up to MaxSections of the sections below, in any order
MaxSections == 2
SectionBodies ==
  { <<>>,
    <<HeaderFull>>,
    <<BlankLine, HeaderFull, SeparatorLine, RowGood>>,
    <<HeaderFull, SeparatorLine, RowShort, SeparatorLine, RowBad>>,
    <<HeaderNoDisposition, SeparatorLine, RowBad>>,
    <<HeaderNeither, SeparatorLine, RowGood>> }
Sections == {<<h>> \o b : h \in Headings, b \in SectionBodies}
SectionDocs == {Flatten(ss) : ss \in SeqsUpTo(Sections, MaxSections)}

\* sequences of labeled and unlabeled tables: up to MaxTables sections, each a
\* table with both columns, a table with no Disposition column, or no table
MaxTables == 3
RoundSections ==
  {<<h>> \o b : h \in {HeadingUnlabeled, HeadingR1},
                b \in { <<HeaderFull, SeparatorLine, RowGood>>,
                        <<HeaderNoDisposition, SeparatorLine, RowBad>>,
                        <<ProseLine>> }}
RoundDocs == {Flatten(ss) : ss \in SeqsUpTo(RoundSections, MaxTables)}

Docs == OneSectionDocs \cup SectionDocs \cup RoundDocs

(***************************************************************************)
(* validate-dispositions.py: validate_table, validate_file, main           *)
(***************************************************************************)
Severity == <<"s","e","v","e","r","i","t","y">>
Disposition == <<"d","i","s","p","o","s","i","t","i","o","n">>

\* one error string: the defect, the round label, the line named (1-indexed)
\* and the text quoted from the document
Error(kind, label, line, text) ==
  [kind |-> kind, round_label |-> label, line |-> line, text |-> text]

\* f"Round {table['round']}" if table["round"] else "Review Disposition"
RoundLabel(table) ==
  IF TruthyInt(table.round) THEN <<"Round", Val(table.round)>>
  ELSE <<"Review Disposition">>

\* the loop body without the "continue" after a cell-count mismatch: the cells
\* that exist are still classified
ValidateRowNoContinue(table, row, sev_idx, disp_idx) ==
  LET label == RoundLabel(table)
      row_line == row.line + 1
      cells == row.cells
      check(idx, kind, ok(_)) ==
        IF Val(idx) < Len(cells) /\ ~ok(At(cells, Val(idx)))
        THEN <<Error(kind, label, row_line, At(cells, Val(idx)))>> ELSE <<>>
  IN  [errors |->
         (IF Len(cells) # table.col_count
          THEN <<Error("columns", label, row_line, join(cells, <<"|">>))>> ELSE <<>>)
         \o check(sev_idx, "severity", LAMBDA c : classify_severity(c)[1])
         \o check(disp_idx, "disposition", LAMBDA c : classify_disposition(c)[1]),
       reads |-> {<<row.line, Val(k), "index">> :
                    k \in {x \in {sev_idx, disp_idx} : Val(x) < Len(cells)}}]

\* the body of validate_table's loop for one row: the errors it appends and the
\* cells it reads, by index or to quote the row
ValidateRow(table, row, sev_idx, disp_idx) ==
  LET label == RoundLabel(table)
      row_line == row.line + 1
      cells == row.cells
      sev_val == At(cells, Val(sev_idx))
      disp_val == At(cells, Val(disp_idx))
  IN  IF Len(cells) # table.col_count
      THEN [errors |-> <<Error("columns", label, row_line, join(cells, <<"|">>))>>,
            reads |-> {<<row.line, k, "join">> : k \in 0..(Len(cells) - 1)}]
      ELSE [errors |->
              (IF ~classify_severity(sev_val)[1]
               THEN <<Error("severity", label, row_line, sev_val)>> ELSE <<>>)
              \o (IF ~classify_disposition(disp_val)[1]
                  THEN <<Error("disposition", label, row_line, disp_val)>> ELSE <<>>),
            reads |-> {<<row.line, Val(sev_idx), "index">>,
                       <<row.line, Val(disp_idx), "index">>}]

\* a loop over the rows that stops at the first row with an error
RECURSIVE ValidateRowsUntilError(_, _, _, _)
ValidateRowsUntilError(table, rws, sev_idx, disp_idx) ==
  IF rws = <<>> THEN [errors |-> <<>>, reads |-> {}]
  ELSE LET first == ValidateRow(table, Head(rws), sev_idx, disp_idx)
           rest == ValidateRowsUntilError(table, Tail(rws), sev_idx, disp_idx)
       IN  IF first.errors # <<>> THEN first
           ELSE [errors |-> rest.errors, reads |-> first.reads \cup rest.reads]

\* validate_table's loop over the rows
RECURSIVE ValidateRows(_, _, _, _)
ValidateRows(table, rws, sev_idx, disp_idx) ==
  IF rws = <<>> THEN [errors |-> <<>>, reads |-> {}]
  ELSE LET first == ValidateRow(table, Head(rws), sev_idx, disp_idx)
           rest == ValidateRows(table, Tail(rws), sev_idx, disp_idx)
       IN  [errors |-> first.errors \o rest.errors,
            reads |-> first.reads \cup rest.reads]

\* the structural errors with "elif disp_idx is None": the first missing column only
MissingColumnsElif(table) ==
  LET label == RoundLabel(table)
      line_prefix == table.section_header_line + 1
      found == join(table.header_cells, <<",">>)
  IN  IF find_column_index(table.header_cells, {Severity}) = None
      THEN <<Error("missing severity", label, line_prefix, found)>>
      ELSE IF find_column_index(table.header_cells, {Disposition}) = None
      THEN <<Error("missing disposition", label, line_prefix, found)>> ELSE <<>>

\* the structural errors of validate_table (the list repr printed after
\* "Found columns:" is kept as the cells joined by commas)
MissingColumns(table) ==
  LET label == RoundLabel(table)
      line_prefix == table.section_header_line + 1
      found == join(table.header_cells, <<",">>)
  IN  (IF find_column_index(table.header_cells, {Severity}) = None
       THEN <<Error("missing severity", label, line_prefix, found)>> ELSE <<>>)
      \o (IF find_column_index(table.header_cells, {Disposition}) = None
          THEN <<Error("missing disposition", label, line_prefix, found)>> ELSE <<>>)

\* a validate_table with no early return for a table with no header cells
ValidateTableNoEarlyReturn(table) ==
  IF MissingColumns(table) # <<>>
    THEN [errors |-> MissingColumns(table), reads |-> {}]
  ELSE ValidateRows(table, table.rows,
                    find_column_index(table.header_cells, {Severity}),
                    find_column_index(table.header_cells, {Disposition}))

\* validate_table(table): the error list, and the cells indexed
validate_table(table) ==
  IF table.header_cells = <<>> THEN [errors |-> <<>>, reads |-> {}]
  ELSE IF MissingColumns(table) # <<>>
    THEN [errors |-> MissingColumns(table), reads |-> {}]
  ELSE ValidateRows(table, table.rows,
                    find_column_index(table.header_cells, {Severity}),
                    find_column_index(table.header_cells, {Disposition}))

ValidateResult(passed, tables_found, errors) ==
  Some([passed |-> passed, tables_found |-> tables_found, errors |-> errors])

\* validate_file: the path does not exist
FileNotFound ==
  /\ tool = "validate" /\ pc = "validate_file"
  /\ path_kind = "missing"
  /\ result' = ValidateResult(FALSE, 0,
                 <<Error("file not found", <<>>, 0, <<>>)>>)
  /\ pc' = "main"
  /\ UNCHANGED <<inputVars, scanVars, t, all_errors, errs, stdout, exit_code,
                 aggregateVars, cells_read, callVars, statsVars>>

\* validate_file: the path is not a regular file
NotAFile ==
  /\ tool = "validate" /\ pc = "validate_file"
  /\ path_kind = "directory"
  /\ result' = ValidateResult(FALSE, 0,
                 <<Error("not a file", <<>>, 0, <<>>)>>)
  /\ pc' = "main"
  /\ UNCHANGED <<inputVars, scanVars, t, all_errors, errs, stdout, exit_code,
                 aggregateVars, cells_read, callVars, statsVars>>

\* validate_file: the file is read and find_disposition_tables called
ValidateReadFile ==
  /\ tool = "validate" /\ pc = "validate_file"
  /\ path_kind = "file"
  /\ pc' = "SCANNING"
  /\ UNCHANGED <<inputVars, scanVars, callerVars, callVars, statsVars>>

\* validate_file: no tables
ValidateNoTables ==
  /\ tool = "validate" /\ pc = "tables"
  /\ tables = <<>>
  /\ result' = ValidateResult(TRUE, 0, <<>>)
  /\ pc' = "main"
  /\ UNCHANGED <<inputVars, scanVars, t, all_errors, errs, stdout, exit_code,
                 aggregateVars, cells_read, callVars, statsVars>>

\* validate_file: the next table is validated and its errors appended
ValidateTable ==
  /\ tool = "validate" /\ pc = "tables"
  /\ t < Len(tables)
  /\ errs' = validate_table(At(tables, t)).errors
  /\ all_errors' = all_errors \o errs'
  /\ cells_read' = cells_read \cup validate_table(At(tables, t)).reads
  /\ t' = t + 1
  /\ UNCHANGED <<inputVars, pc, scanVars, result, stdout, exit_code, aggregateVars,
                 callVars, statsVars>>

\* validate_file: every table is validated
ValidateReturn ==
  /\ tool = "validate" /\ pc = "tables"
  /\ tables # <<>>
  /\ t = Len(tables)
  /\ result' = ValidateResult(all_errors = <<>>, Len(tables), all_errors)
  /\ pc' = "main"
  /\ UNCHANGED <<inputVars, scanVars, t, all_errors, errs, stdout, exit_code,
                 aggregateVars, cells_read, callVars, statsVars>>

\* main: table_count == 0
MainNoTables ==
  /\ tool = "validate" /\ pc = "main"
  /\ Val(result).tables_found = 0
  /\ stdout' = Some([verdict |-> "PASS", errors |-> <<>>])
  /\ exit_code' = Some(0)
  /\ pc' = "exit"
  /\ UNCHANGED <<inputVars, scanVars, t, all_errors, errs, result, aggregateVars,
                 cells_read, callVars, statsVars>>

\* main: passed
MainPass ==
  /\ tool = "validate" /\ pc = "main"
  /\ Val(result).tables_found # 0
  /\ Val(result).passed
  /\ stdout' = Some([verdict |-> "PASS", errors |-> <<>>])
  /\ exit_code' = Some(0)
  /\ pc' = "exit"
  /\ UNCHANGED <<inputVars, scanVars, t, all_errors, errs, result, aggregateVars,
                 cells_read, callVars, statsVars>>

\* main: not passed
MainFail ==
  /\ tool = "validate" /\ pc = "main"
  /\ Val(result).tables_found # 0
  /\ ~Val(result).passed
  /\ stdout' = Some([verdict |-> "FAIL", errors |-> Val(result).errors])
  /\ exit_code' = Some(1)
  /\ pc' = "exit"
  /\ UNCHANGED <<inputVars, scanVars, t, all_errors, errs, result, aggregateVars,
                 cells_read, callVars, statsVars>>

validate_file ==
  \/ FileNotFound \/ NotAFile \/ ValidateReadFile
  \/ ValidateNoTables \/ ValidateTable \/ ValidateReturn

main == MainNoTables \/ MainPass \/ MainFail

(***************************************************************************)
(* aggregate-dispositions.py: parse_file_findings                          *)
(***************************************************************************)
\* str(filepath)
FilePath == "plan.md"

\* the column indices parse_file_findings resolves
Columns(table) ==
  [sev |-> find_column_index(table.header_cells, {Severity}),
   disp |-> find_column_index(table.header_cells, {Disposition}),
   summary |-> find_column_index(table.header_cells,
                 {<<"s","u","m","m","a","r","y">>,
                  <<"d","e","s","c","r","i","p","t","i","o","n">>}),
   reviewer |-> find_column_index(table.header_cells,
                 {<<"r","e","v","i","e","w","e","r">>}),
   notes |-> find_column_index(table.header_cells,
                 {<<"n","o","t","e","s">>, <<"n","o","t","e">>,
                  <<"c","o","m","m","e","n","t","s">>, <<"c","o","m","m","e","n","t">>}),
   finding |-> find_column_index(table.header_cells,
                 {<<"f","i","n","d","i","n","g"," ","i","d">>,
                  <<"f","i","n","d","i","n","g">>, <<"#">>, <<"i","d">>})]

\* the body of parse_file_findings' loop for one row: the findings it appends
\* and the cells it indexes
FindingOfRow(table, row, rnd) ==
  LET cells == row.cells
      c == Columns(table)
      used == {c.sev, c.disp, c.summary, c.reviewer, c.notes, c.finding} \ {None}
  IN  IF Len(cells) # table.col_count THEN [findings |-> <<>>, reads |-> {}]
      ELSE [findings |->
              << [file |-> FilePath,
                  round |-> rnd,
                  finding_id |-> IF c.finding # None THEN At(cells, Val(c.finding)) ELSE <<>>,
                  reviewer |-> IF c.reviewer # None THEN Some(At(cells, Val(c.reviewer)))
                               ELSE None,
                  severity |-> normalize_severity(At(cells, Val(c.sev))),
                  severity_raw |-> strip(At(cells, Val(c.sev))),
                  summary |-> IF c.summary # None THEN At(cells, Val(c.summary)) ELSE <<>>,
                  disposition |-> normalize_disposition(At(cells, Val(c.disp))),
                  disposition_raw |-> strip(At(cells, Val(c.disp))),
                  notes |-> IF c.notes # None THEN At(cells, Val(c.notes)) ELSE <<>>] >>,
            reads |-> {<<row.line, Val(k), "index">> : k \in used}]

\* parse_file_findings' loop over the rows of one table
RECURSIVE FindingsOfRows(_, _, _)
FindingsOfRows(table, rws, rnd) ==
  IF rws = <<>> THEN [findings |-> <<>>, reads |-> {}]
  ELSE LET first == FindingOfRow(table, Head(rws), rnd)
           rest == FindingsOfRows(table, Tail(rws), rnd)
       IN  [findings |-> first.findings \o rest.findings,
            reads |-> first.reads \cup rest.reads]

\* round_num of the table: its own, or unlabeled_round when it has none
ResolvedRound(table, unlabeled) ==
  IF table.round = None THEN unlabeled ELSE Val(table.round)

\* an unlabeled_round that is never advanced
UnlabeledRoundKept(unlabeled, rnd) == unlabeled

\* unlabeled_round after the table
NextUnlabeledRound(unlabeled, rnd) == Max({unlabeled, rnd + 1})

\* the file is read and find_disposition_tables called
AggregateReadFile ==
  /\ tool = "aggregate" /\ pc = "parse_file_findings"
  /\ pc' = "SCANNING"
  /\ UNCHANGED <<inputVars, scanVars, callerVars, callVars, statsVars>>

\* a table with no header cells is skipped
AggregateSkipHeaderless ==
  /\ tool = "aggregate" /\ pc = "tables"
  /\ t < Len(tables)
  /\ At(tables, t).header_cells = <<>>
  /\ t' = t + 1
  /\ UNCHANGED <<inputVars, pc, scanVars, validateVars, aggregateVars, cells_read,
                 callVars, statsVars>>

\* a table whose severity or disposition column is not found: its round is
\* resolved, then the table is skipped
AggregateSkipUnresolved ==
  /\ tool = "aggregate" /\ pc = "tables"
  /\ t < Len(tables)
  /\ At(tables, t).header_cells # <<>>
  /\ Columns(At(tables, t)).sev = None \/ Columns(At(tables, t)).disp = None
  /\ LET rnd == ResolvedRound(At(tables, t), unlabeled_round)
     IN  /\ round_log' = Append(round_log, [table |-> t, round |-> rnd])
         /\ unlabeled_round' = NextUnlabeledRound(unlabeled_round, rnd)
  /\ t' = t + 1
  /\ UNCHANGED <<inputVars, pc, scanVars, validateVars, findings, cells_read, callVars, statsVars>>

\* a table with both columns: its round is resolved and its rows become findings
AggregateTable ==
  /\ tool = "aggregate" /\ pc = "tables"
  /\ t < Len(tables)
  /\ At(tables, t).header_cells # <<>>
  /\ Columns(At(tables, t)).sev # None
  /\ Columns(At(tables, t)).disp # None
  /\ LET rnd == ResolvedRound(At(tables, t), unlabeled_round)
         got == FindingsOfRows(At(tables, t), At(tables, t).rows, rnd)
     IN  /\ round_log' = Append(round_log, [table |-> t, round |-> rnd])
         /\ unlabeled_round' = NextUnlabeledRound(unlabeled_round, rnd)
         /\ findings' = findings \o got.findings
         /\ cells_read' = cells_read \cup got.reads
  /\ t' = t + 1
  /\ UNCHANGED <<inputVars, pc, scanVars, validateVars, callVars, statsVars>>

\* the findings are returned
AggregateReturn ==
  /\ tool = "aggregate" /\ pc = "tables"
  /\ t = Len(tables)
  /\ pc' = "findings"
  /\ UNCHANGED <<inputVars, scanVars, callerVars, callVars, statsVars>>

parse_file_findings ==
  \/ AggregateReadFile \/ AggregateSkipHeaderless \/ AggregateSkipUnresolved
  \/ AggregateTable \/ AggregateReturn

(***************************************************************************)
(* One run of the validator or of the aggregator's parse of one file       *)
(***************************************************************************)
Init ==
  /\ tool \in {"validate", "aggregate"}
  /\ path_kind \in {"missing", "directory", "file"}
  /\ tool = "aggregate" => path_kind = "file"
  /\ lines \in (IF path_kind = "file" THEN Docs ELSE {<<>>})
  /\ pc = (IF tool = "validate" THEN "validate_file" ELSE "parse_file_findings")
  /\ ScanStart
  /\ CallerStart
  /\ CallStart
  /\ StatsStart

Next == find_disposition_tables \/ validate_file \/ main \/ parse_file_findings

Spec == Init /\ [][Next]_vars

(***************************************************************************)
(* One call of the row parser, of a classifier or of a normalizer          *)
(***************************************************************************)
\* the values: a word, padded or not, followed by up to MaxSuffix characters
MaxSuffix == 2
SuffixChars == {" ", "(", "d", "x"}
DispositionWords ==
  RECOGNIZED_DISPOSITIONS
  \cup {Incorporated, NotIncorporated, Deferred, NA, <<"w","o","n","t","f","i","x">>}
DispositionValues ==
  {pad \o w \o sfx : pad \in {<<>>, <<" ">>}, w \in DispositionWords,
                     sfx \in SeqsUpTo(SuffixChars, MaxSuffix)}

\* severity values: the recognized words and canonical labels, and up to
\* MaxParts parts joined by "/" or ","
MaxParts == 3
SeverityParts ==
  { <<"P","0">>, <<"B","l","o","c","k","e","r">>, <<" ","l","o","w"," ">>,
    <<"n">>, <<"a">>, <<"z","z">> }
SeverityValues ==
  RECOGNIZED_SEVERITIES \cup {P0, P1, P2, P3, Info, NA}
  \cup {join(ps, sep) : ps \in SeqsUpTo(SeverityParts, MaxParts), sep \in {<<"/">>, <<",">>}}

\* lines for the row parser: up to MaxLineLen characters
MaxLineLen == 5
LineChars == {"|", " ", "a", "-"}
RowLines == SeqsUpTo(LineChars, MaxLineLen)

CallValues == DispositionValues \cup SeverityValues \cup RowLines

CallParseTableRow ==
  /\ tool = "call" /\ pc = "call"
  /\ called' = "parse_table_row"
  /\ returned' = Some(parse_table_row(value))
  /\ pc' = "return"
  /\ UNCHANGED <<inputVars, scanVars, callerVars, statsVars, value>>

CallClassifySeverity ==
  /\ tool = "call" /\ pc = "call"
  /\ called' = "classify_severity"
  /\ returned' = Some(classify_severity(value))
  /\ pc' = "return"
  /\ UNCHANGED <<inputVars, scanVars, callerVars, statsVars, value>>

CallNormalizeSeverity ==
  /\ tool = "call" /\ pc = "call"
  /\ called' = "normalize_severity"
  /\ returned' = Some(normalize_severity(value))
  /\ pc' = "return"
  /\ UNCHANGED <<inputVars, scanVars, callerVars, statsVars, value>>

CallClassifyDisposition ==
  /\ tool = "call" /\ pc = "call"
  /\ called' = "classify_disposition"
  /\ returned' = Some(classify_disposition(value))
  /\ pc' = "return"
  /\ UNCHANGED <<inputVars, scanVars, callerVars, statsVars, value>>

CallNormalizeDisposition ==
  /\ tool = "call" /\ pc = "call"
  /\ called' = "normalize_disposition"
  /\ returned' = Some(normalize_disposition(value))
  /\ pc' = "return"
  /\ UNCHANGED <<inputVars, scanVars, callerVars, statsVars, value>>

InitCall ==
  /\ tool = "call"
  /\ path_kind = "file"
  /\ lines = <<>>
  /\ pc = "call"
  /\ ScanStart
  /\ CallerStart
  /\ StatsStart
  /\ value \in CallValues
  /\ called = ""
  /\ returned = None

NextCall ==
  \/ CallParseTableRow
  \/ CallClassifySeverity \/ CallNormalizeSeverity
  \/ CallClassifyDisposition \/ CallNormalizeDisposition

SpecCall == InitCall /\ [][NextCall]_vars

(***************************************************************************)
(* aggregate-dispositions.py: aggregate_findings, the convergence table    *)
(***************************************************************************)
\* the findings given to aggregate_findings: for each round of ObservedRounds
\* up to MaxTotal findings, the rounds in document order or in reverse
MaxTotal == 10
ObservedRounds == <<1, 2, 4>>
Finding(rnd, disp) ==
  [file |-> FilePath, round |-> rnd, finding_id |-> <<>>, reviewer |-> None,
   severity |-> P0, severity_raw |-> P0, summary |-> <<>>,
   disposition |-> disp, disposition_raw |-> disp, notes |-> <<>>]
\* n findings of one round, their dispositions in turn
FindingsOfRound(rnd, n) ==
  [k \in 1..n |-> Finding(rnd, IF k % 2 = 1 THEN Incorporated ELSE NotIncorporated)]
FindingLists ==
  {FindingsOfRound(order[1], c[1]) \o FindingsOfRound(order[2], c[2])
     \o FindingsOfRound(order[3], c[3]) :
     c \in [1..3 -> 0..MaxTotal], order \in {ObservedRounds, <<4, 2, 1>>}}

\* sorted(keys)
RECURSIVE sorted(_)
sorted(keys) ==
  IF keys = {} THEN <<>> ELSE <<Min(keys)>> \o sorted(keys \ {Min(keys)})

\* f"{x:.0f}" of x = num / den >= 0: the nearest integer, the even one of two
Format0f(num, den) ==
  LET q == num \div den
      r == num % den
  IN  IF 2 * r < den THEN q
      ELSE IF 2 * r > den THEN q + 1
      ELSE IF q % 2 = 0 THEN q ELSE q + 1

\* a trend whose percentage is taken of the round's own total
TrendOfTotal(total, prev) ==
  IF prev # None /\ Val(prev) > 0
  THEN IF total - Val(prev) <= 0
       THEN <<"down", Format0f((Val(prev) - total) * 100, total)>>
       ELSE <<"up", Format0f((total - Val(prev)) * 100, total)>>
  ELSE <<"none">>

\* the trend string of a round: the arrow and the percentage printed
Trend(total, prev) ==
  IF prev # None /\ Val(prev) > 0
  THEN IF total - Val(prev) <= 0
       THEN <<"down", Format0f((Val(prev) - total) * 100, Val(prev))>>
       ELSE <<"up", Format0f((total - Val(prev)) * 100, Val(prev))>>
  ELSE <<"none">>

\* per_round[rnd] before its first finding
NoStats == [total |-> 0, incorporated |-> 0, not_incorporated |-> 0, deferred |-> 0, na |-> 0]

\* the first loop: one finding is counted
CountFinding ==
  /\ tool = "stats" /\ pc = "aggregate_findings"
  /\ counted < Len(findings)
  /\ LET fnd == At(findings, counted)
         rnd == fnd.round
         disp == fnd.disposition
         old == IF rnd \in DOMAIN per_round THEN per_round[rnd] ELSE NoStats
         new == [total |-> old.total + 1,
                 incorporated |-> old.incorporated + (IF disp = Incorporated THEN 1 ELSE 0),
                 not_incorporated |->
                   old.not_incorporated + (IF disp = NotIncorporated THEN 1 ELSE 0),
                 deferred |-> old.deferred + (IF disp = Deferred THEN 1 ELSE 0),
                 na |-> old.na + (IF disp = NA THEN 1 ELSE 0)]
     IN  per_round' = [k \in DOMAIN per_round \cup {rnd} |->
                         IF k = rnd THEN new ELSE per_round[k]]
  /\ counted' = counted + 1
  /\ UNCHANGED <<inputVars, pc, scanVars, callerVars, callVars, sorted_rounds,
                 prev_total, convergence>>

\* the rounds are sorted
SortRounds ==
  /\ tool = "stats" /\ pc = "aggregate_findings"
  /\ counted = Len(findings)
  /\ sorted_rounds' = sorted(DOMAIN per_round)
  /\ prev_total' = None
  /\ pc' = "convergence"
  /\ UNCHANGED <<inputVars, scanVars, callerVars, callVars, counted, per_round, convergence>>

\* the second loop: the next round's entry is appended
ConvergenceRound ==
  /\ tool = "stats" /\ pc = "convergence"
  /\ Len(convergence) < Len(sorted_rounds)
  /\ LET rnd == At(sorted_rounds, Len(convergence))
         stats == per_round[rnd]
     IN  /\ convergence' = Append(convergence,
               [round |-> rnd, total |-> stats.total,
                incorporated |-> stats.incorporated,
                not_incorporated |-> stats.not_incorporated,
                deferred |-> stats.deferred, na |-> stats.na,
                trend |-> Trend(stats.total, prev_total)])
         /\ prev_total' = Some(stats.total)
  /\ UNCHANGED <<inputVars, pc, scanVars, callerVars, callVars, counted, per_round,
                 sorted_rounds>>

\* the statistics are returned
StatsReturn ==
  /\ tool = "stats" /\ pc = "convergence"
  /\ Len(convergence) = Len(sorted_rounds)
  /\ pc' = "stats"
  /\ UNCHANGED <<inputVars, scanVars, callerVars, callVars, statsVars>>

aggregate_findings == CountFinding \/ SortRounds \/ ConvergenceRound \/ StatsReturn

InitStats ==
  /\ tool = "stats"
  /\ path_kind = "file"
  /\ lines = <<>>
  /\ pc = "aggregate_findings"
  /\ ScanStart
  /\ t = 0
  /\ all_errors = <<>>
  /\ errs = <<>>
  /\ result = None
  /\ stdout = None
  /\ exit_code = None
  /\ unlabeled_round = 1
  /\ findings \in FindingLists
  /\ round_log = <<>>
  /\ cells_read = {}
  /\ CallStart
  /\ StatsStart

NextStats == aggregate_findings

SpecStats == InitStats /\ [][NextStats]_vars

(***************************************************************************)
(* Properties                                                              *)
(***************************************************************************)
ValidatorDone == tool = "validate" /\ pc = "exit"
ValidatorRead == ValidatorDone /\ path_kind = "file"
AggregatorDone == tool = "aggregate" /\ pc = "findings"
TableIndices == 1..Len(tables)
HasColumn(table, name) == find_column_index(table.header_cells, {name}) # None
Resolved(table) ==
  table.header_cells # <<>> /\ HasColumn(table, Severity) /\ HasColumn(table, Disposition)
Malformed(table, row) == Len(row.cells) # table.col_count

\* C1: for every input path the validator exits with status 0 exactly when
\* validation passed (a readable file with no tables passes); a path that is
\* missing or no regular file makes the run fail: status 1, the error printed,
\* never PASS.
C1_ExitStatusIsTheVerdict ==
  ValidatorDone =>
    /\ (Val(exit_code) = 0) <=> Val(result).passed
    /\ path_kind # "file" =>
         /\ Val(exit_code) # 0
         /\ Val(stdout).verdict # "PASS"
         /\ Val(stdout).errors = Val(result).errors

\* C2, as claimed: a table with header cells and no Disposition column makes
\* validate_table return exactly one error.
C2_ExactlyOneError ==
  (tool = "validate" /\ t > 0) =>
    LET table == At(tables, t - 1)
    IN  (table.header_cells # <<>> /\ ~HasColumn(table, Disposition)) => Len(errs) = 1

\* C2, amended: a table with header cells and no Disposition column makes
\* validate_table return exactly one "missing Disposition" error, preceded by
\* one "missing Severity" error exactly when the Severity column is absent
\* too, both naming the heading's line, and no error about a row, whatever
\* the rows contain.
C2_OnlyTheMissingColumns ==
  (tool = "validate" /\ t > 0) =>
    LET table == At(tables, t - 1)
        at == table.section_header_line + 1
        kinds == [k \in 1..Len(errs) |-> <<errs[k].kind, errs[k].line>>]
    IN  (table.header_cells # <<>> /\ ~HasColumn(table, Disposition)) =>
          IF HasColumn(table, Severity)
          THEN kinds = <<<<"missing disposition", at>>>>
          ELSE kinds = <<<<"missing severity", at>>, <<"missing disposition", at>>>>

\* C2's case: a table with a Severity and no Disposition column, and a row
\* with unrecognized values, was validated and gave one error.
C2_Witness ==
  /\ tool = "validate" /\ t > 0
  /\ LET table == At(tables, t - 1)
     IN  /\ ~HasColumn(table, Disposition)
         /\ HasColumn(table, Severity)
         /\ \E k \in 1..Len(table.rows) :
              ~classify_severity(At(table.rows[k].cells, 0))[1]
         /\ Len(errs) = 1

\* the defects of a table, each as <<1-indexed line, kind>>
DefectsOf(table) ==
  IF table.header_cells = <<>> THEN {}
  ELSE IF ~Resolved(table)
    THEN (IF HasColumn(table, Severity) THEN {}
          ELSE {<<table.section_header_line + 1, "missing severity">>})
         \cup (IF HasColumn(table, Disposition) THEN {}
               ELSE {<<table.section_header_line + 1, "missing disposition">>})
  ELSE LET sev == Val(find_column_index(table.header_cells, {Severity}))
           disp == Val(find_column_index(table.header_cells, {Disposition}))
           rowsOf == {table.rows[k] : k \in 1..Len(table.rows)}
           bad == {r \in rowsOf : Malformed(table, r)}
           good == rowsOf \ bad
       IN  {<<r.line + 1, "columns">> : r \in bad}
           \cup {<<r.line + 1, "severity">> :
                   r \in {g \in good : ~classify_severity(At(g.cells, sev))[1]}}
           \cup {<<r.line + 1, "disposition">> :
                   r \in {g \in good : ~classify_disposition(At(g.cells, disp))[1]}}

KindOrder(kind) ==
  CASE kind = "missing severity" -> 1
    [] kind = "missing disposition" -> 2
    [] kind = "columns" -> 1
    [] kind = "severity" -> 1
    [] kind = "disposition" -> 2

\* C3: for a readable file the result is pass exactly when no table has a
\* defect (no tables: pass), and the error list holds every defect of every
\* table once, in document order: a defect of one row or table does not hide
\* those of later rows or tables.
C3_CompleteErrorList ==
  ValidatorRead =>
    LET errors == Val(result).errors
        listed == {<<errors[k].line, errors[k].kind>> : k \in 1..Len(errors)}
        defects == UNION {DefectsOf(tables[k]) : k \in TableIndices}
    IN  /\ Val(result).passed <=> defects = {}
        /\ listed = defects
        /\ Cardinality(defects) = Len(errors)
        /\ \A j, k \in 1..Len(errors) :
             j < k => \/ errors[j].line < errors[k].line
                      \/ /\ errors[j].line = errors[k].line
                         /\ KindOrder(errors[j].kind) < KindOrder(errors[k].kind)
        /\ Val(stdout).errors = errors
        /\ Val(result).tables_found = Len(tables)

\* C3's case: two tables with defects, the second one with a malformed row
\* followed by a row with two unrecognized values, all four in the result.
C3_Witness ==
  /\ ValidatorRead
  /\ Len(tables) = 2
  /\ DefectsOf(tables[1]) # {}
  /\ \E j, k \in 1..Len(tables[2].rows) :
       /\ j < k
       /\ <<tables[2].rows[j].line + 1, "columns">> \in DefectsOf(tables[2])
       /\ <<tables[2].rows[k].line + 1, "severity">> \in DefectsOf(tables[2])
       /\ <<tables[2].rows[k].line + 1, "disposition">> \in DefectsOf(tables[2])
  /\ Len(Val(result).errors) >= 4
  /\ ~Val(result).passed

\* the rows of a table whose cell count differs from, or equals, the column count
MalformedRows(table) ==
  {table.rows[j] : j \in {k \in 1..Len(table.rows) : Malformed(table, table.rows[k])}}
WellFormedRows(table) ==
  {table.rows[j] : j \in {k \in 1..Len(table.rows) : ~Malformed(table, table.rows[k])}}
ResolvedTables == {tables[k] : k \in {n \in TableIndices : Resolved(tables[n])}}
ErrorsAt(errors, line) == SelectSeq(errors, LAMBDA e : e.line = line)

\* C4, as claimed: a row whose cell count differs from the column count, in a
\* table with both columns, gets exactly one validator error, no severity or
\* disposition error and no finding from the aggregator, and no cell of it is
\* read in any way.
C4_NoCellRead ==
  /\ ValidatorRead =>
       \A table \in ResolvedTables : \A r \in MalformedRows(table) :
         /\ Len(ErrorsAt(Val(result).errors, r.line + 1)) = 1
         /\ ErrorsAt(Val(result).errors, r.line + 1)[1].kind = "columns"
         /\ ~\E c \in cells_read : c[1] = r.line
  /\ AggregatorDone =>
       /\ Len(findings) = Cardinality(UNION {WellFormedRows(tb) : tb \in ResolvedTables})
       /\ \A table \in ResolvedTables : \A r \in MalformedRows(table) :
            ~\E c \in cells_read : c[1] = r.line

\* C4, amended: a row whose cell count differs from the column count, in a
\* table with both columns, gets exactly one validator error, which quotes
\* the row's cells joined by "|", and no severity or disposition error; the
\* aggregator makes no finding from it; neither script reads a cell of the row
\* by column index, and the aggregator reads none at all.
C4_NoCellIndexed ==
  /\ ValidatorRead =>
       \A table \in ResolvedTables : \A r \in MalformedRows(table) :
         /\ Len(ErrorsAt(Val(result).errors, r.line + 1)) = 1
         /\ ErrorsAt(Val(result).errors, r.line + 1)[1].kind = "columns"
         /\ ErrorsAt(Val(result).errors, r.line + 1)[1].text = join(r.cells, <<"|">>)
         /\ ~\E c \in cells_read : c[1] = r.line /\ c[3] = "index"
  /\ AggregatorDone =>
       /\ Len(findings) = Cardinality(UNION {WellFormedRows(tb) : tb \in ResolvedTables})
       /\ \A table \in ResolvedTables : \A r \in MalformedRows(table) :
            ~\E c \in cells_read : c[1] = r.line

\* C4's case: the validator has met a row with too few cells, followed by a
\* row it classified, in a table with both columns.
C4_Witness ==
  /\ ValidatorRead
  /\ \E table \in ResolvedTables : \E r \in MalformedRows(table), g \in WellFormedRows(table) :
       /\ r.line < g.line
       /\ Len(r.cells) < table.col_count
       /\ Len(ErrorsAt(Val(result).errors, r.line + 1)) = 1
       /\ \E c \in cells_read : c[1] = g.line /\ c[3] = "index"

\* the line scanner has returned
Located == tool = "locate" /\ pc = "tables"
ParsesAsRow(j) == j < len /\ parse_table_row(At(lines, j)) # None
CellsAt(j) == Val(parse_table_row(At(lines, j)))
ValidSeparator(j) == ParsesAsRow(j) /\ is_separator_row(CellsAt(j))
\* the first line after line s that is not blank; len if there is none
FirstNonBlank(s) == Min({j \in (s + 1)..(len - 1) : strip(At(lines, j)) # <<>>} \cup {len})
\* the first line after line s that is no row; len if there is none
FirstNonRow(s) == Min({j \in (s + 1)..(len - 1) : ~ParsesAsRow(j)} \cup {len})
\* the rows between a separator row and the line that ends the table
RowsBetween(s, e) ==
  LET between == [n \in 1..(e - s - 1) |-> s + n]
      kept == SelectSeq(between, LAMBDA j : ~is_separator_row(CellsAt(j)))
  IN  [n \in 1..Len(kept) |-> [line |-> kept[n], cells |-> CellsAt(kept[n])]]
IsHeaderless(table) ==
  /\ table.header_cells = <<>> /\ table.rows = <<>>
  /\ table.separator_line = None /\ table.col_count = 0
\* the table of a heading at line s with header row h and separator row h + 1
IsTableOf(table, s, h) ==
  /\ table.section_header_line = s
  /\ table.header_line = h
  /\ table.header_cells = CellsAt(h)
  /\ table.col_count = Len(CellsAt(h))
  /\ table.separator_line = Some(h + 1)
  /\ table.rows = RowsBetween(h + 1, FirstNonRow(h + 1))

\* C5, as claimed: the table of a matched heading is headerless exactly when
\* the first non-blank line after the heading is missing or parses as no row,
\* or the line after it is missing or is no separator row; otherwise it is the
\* table with that header row, that separator row and the data rows after it.
\* A table with no header cells has no rows and no separator.
C5_HeaderlessIffNoRowOrNoSeparator ==
  Located =>
    /\ \A k \in TableIndices :
         LET table == tables[k]
             h == FirstNonBlank(table.section_header_line)
         IN  /\ DISPOSITION_HEADER_RE(At(lines, table.section_header_line)).matched
             /\ IsHeaderless(table) <=> (~ParsesAsRow(h) \/ ~ValidSeparator(h + 1))
             /\ ~IsHeaderless(table) => IsTableOf(table, table.section_header_line, h)
             /\ table.header_cells = <<>> =>
                  table.rows = <<>> /\ table.separator_line = None
    /\ \A j, k \in TableIndices :
         j < k => tables[j].section_header_line < tables[k].section_header_line

\* C5, amended: the table of a matched heading is headerless exactly when the
\* first non-blank line after the heading is missing or is no row with at
\* least one cell, or the line after it is missing or is no separator row
\* with at least one cell; otherwise it is the table with that header row,
\* that separator row and the data rows after it.  A table with no header
\* cells has no rows and no separator, and each matched heading has one table.
C5_HeaderlessIffNoCellsOrNoSeparator ==
  Located =>
    /\ \A k \in TableIndices :
         LET table == tables[k]
             h == FirstNonBlank(table.section_header_line)
             header == ParsesAsRow(h) /\ CellsAt(h) # <<>>
             separator == ValidSeparator(h + 1) /\ CellsAt(h + 1) # <<>>
         IN  /\ DISPOSITION_HEADER_RE(At(lines, table.section_header_line)).matched
             /\ IsHeaderless(table) <=> (~header \/ ~separator)
             /\ ~IsHeaderless(table) => IsTableOf(table, table.section_header_line, h)
             /\ table.header_cells = <<>> =>
                  table.rows = <<>> /\ table.separator_line = None
    /\ \A j, k \in TableIndices :
         j < k => tables[j].section_header_line < tables[k].section_header_line

\* C5's case: the scanner returned a headerless table for a heading followed
\* by a row with no cells and a separator row, and a table with rows too.
C5_Witness ==
  /\ Located
  /\ \E k \in TableIndices :
       LET h == FirstNonBlank(tables[k].section_header_line)
       IN  /\ IsHeaderless(tables[k])
           /\ ParsesAsRow(h) /\ CellsAt(h) = <<>>
           /\ ValidSeparator(h + 1)
  /\ \E k \in TableIndices : ~IsHeaderless(tables[k]) /\ tables[k].rows # <<>>

\* C6: after a header row and a separator row, every following line that
\* parses as a row belongs to the table: it is one of its rows, in order,
\* unless it is separator-shaped, and then it is skipped and the table goes
\* on; the first line that parses as no row ends the table and is scanned
\* again, so that a heading there has a table of its own.
C6_RowsConsumedEndingLineRescanned ==
  Located =>
    \A k \in TableIndices :
      tables[k].separator_line # None =>
        LET s == Val(tables[k].separator_line)
            e == FirstNonRow(s)
        IN  /\ tables[k].rows = RowsBetween(s, e)
            /\ \A j \in (s + 1)..(e - 1) :
                 \/ is_separator_row(CellsAt(j))
                 \/ \E n \in 1..Len(tables[k].rows) : tables[k].rows[n].line = j
            /\ (e < len /\ DISPOSITION_HEADER_RE(At(lines, e)).matched) =>
                 /\ k < Len(tables)
                 /\ tables[k + 1].section_header_line = e

\* C6's case: a table with a data row after a skipped separator-shaped row,
\* ended by a heading that has the next table.
C6_Witness ==
  /\ Located
  /\ \E k \in TableIndices :
       /\ tables[k].separator_line # None
       /\ LET s == Val(tables[k].separator_line)
              e == FirstNonRow(s)
          IN  /\ \E j \in (s + 1)..(e - 1) :
                   /\ is_separator_row(CellsAt(j))
                   /\ \E n \in 1..Len(tables[k].rows) : tables[k].rows[n].line > j
              /\ e < len
              /\ DISPOSITION_HEADER_RE(At(lines, e)).matched
              /\ k < Len(tables)
              /\ tables[k + 1].section_header_line = e

\* the round_log entries of unlabeled tables and of tables with both columns
LogIndices == 1..Len(round_log)
Unlabeled(n) == At(tables, round_log[n].table).round = None
Retained(n) == Resolved(At(tables, round_log[n].table))

\* C7: a table with both columns and no round number gets round 1 if no table
\* with both columns precedes it in the file, else 1 + the largest round of
\* the preceding tables with both columns: headerless tables and tables with
\* an unresolved severity or disposition column take no round number.
C7_SkippedTablesConsumeNoRound ==
  tool = "aggregate" =>
    \A n \in LogIndices :
      (Unlabeled(n) /\ Retained(n)) =>
        round_log[n].round =
          1 + Max({0} \cup {round_log[m].round : m \in {x \in 1..(n - 1) : Retained(x)}})

\* C8: in one file the rounds given to the tables with no round number
\* increase strictly in document order, whatever labeled tables stand between
\* them, and every finding has a round number.
C8_UnlabeledRoundsIncrease ==
  tool = "aggregate" =>
    /\ \A m, n \in LogIndices :
         (m < n /\ Unlabeled(m) /\ Unlabeled(n)) => round_log[m].round < round_log[n].round
    /\ \A k \in 1..Len(findings) :
         /\ findings[k].round \in Nat
         /\ \E n \in LogIndices : round_log[n].round = findings[k].round

\* C8's case: an unlabeled table, a labeled one and an unlabeled one, each
\* with findings: rounds 1, 1 and 2.
C8_Witness ==
  /\ AggregatorDone
  /\ Len(round_log) = 3
  /\ Unlabeled(1) /\ ~Unlabeled(2) /\ Unlabeled(3)
  /\ Len(findings) = 3
  /\ findings[1].round = 1 /\ findings[2].round = 1 /\ findings[3].round = 2

\* C9: normalize_disposition gives "Not Incorporated" for every value whose
\* trimmed lowercase form is or starts with "not incorporated", and
\* "Incorporated" for every value that is "incorporated" or "incorporate" or
\* starts with "incorporated".
C9_PrefixesNormalized ==
  called = "normalize_disposition" =>
    LET v == lower(strip(value))
    IN  /\ startswith(v, lower(NotIncorporated)) => Val(returned) = NotIncorporated
        /\ (v = lower(<<"I","n","c","o","r","p","o","r","a","t","e">>)
            \/ startswith(v, lower(Incorporated))) => Val(returned) = Incorporated

\* C10: every validator error about a row names the 1-indexed line of the row
\* and the round of its table: "Round N" for a heading with the number N, 0
\* too, and the unlabeled label only for a heading with no number.
C10_RowErrorsNameRoundAndLine ==
  ValidatorRead =>
    \A k \in 1..Len(Val(result).errors) :
      LET e == Val(result).errors[k]
      IN  e.kind \in {"columns", "severity", "disposition"} =>
            \E table \in ResolvedTables : \E n \in 1..Len(table.rows) :
              /\ e.line = table.rows[n].line + 1
              /\ e.round_label = IF table.round # None THEN <<"Round", Val(table.round)>>
                                 ELSE <<"Review Disposition">>

\* the cells joined by the pipe delimiter, with outer pipes
Rejoin(cells) == <<"|">> \o join(cells, <<"|">>) \o <<"|">>

\* C11: for every line that parse_table_row accepts as a row, lines with no
\* cells or empty cells included, the cells rejoined with the pipe delimiter
\* and outer pipes parse to the same cells again.
C11_ParseRejoinParse ==
  (called = "parse_table_row" /\ Val(returned) # None) =>
    parse_table_row(Rejoin(Val(Val(returned)))) = Val(returned)

\* the parts of a trimmed lowercase severity value, each stripped
SeverityPartsOf(v) ==
  LET parts == split(v, {"/", ","}) IN [k \in 1..Len(parts) |-> strip(parts[k])]
\* the form a valid severity value is recognized by: the value itself, else
\* its first recognized part
SelectedForm(v) ==
  IF v \in RECOGNIZED_SEVERITIES THEN v
  ELSE LET ps == SeverityPartsOf(v)
       IN  ps[Min({k \in 1..Len(ps) : ps[k] \in RECOGNIZED_SEVERITIES})]
\* the canonical label of a recognized form
CanonicalSeverity(form) ==
  CASE form \in {lower(P0), <<"c","r","i","t","i","c","a","l">>,
                 <<"b","l","o","c","k","e","r">>, <<"b","l","o","c","k","i","n","g">>} -> P0
    [] form \in {lower(P1), <<"h","i","g","h">>} -> P1
    [] form \in {lower(P2), <<"m","e","d","i","u","m">>} -> P2
    [] form \in {lower(P3), <<"l","o","w">>} -> P3
    [] form \in {lower(NA), <<"n","o","n","e">>, <<"u2014">>} -> NA
    [] OTHER -> Info

\* C12: a severity value is valid exactly when its trimmed lowercase form is
\* recognized or one of its parts between "/" and "," is; for a valid value
\* normalize_severity returns the canonical label of the form the classifier
\* selects (the value itself, else the first recognized part), for an invalid
\* one the trimmed raw text.
C12_ClassifierAndNormalizerAgree ==
  LET v == lower(strip(value))
      ps == SeverityPartsOf(v)
      valid == v \in RECOGNIZED_SEVERITIES
               \/ \E k \in 1..Len(ps) : ps[k] \in RECOGNIZED_SEVERITIES
  IN  /\ called = "classify_severity" =>
           /\ Val(returned)[1] <=> valid
           /\ valid => Val(returned)[2] = SelectedForm(v)
      /\ called = "normalize_severity" =>
           /\ valid => Val(returned) = CanonicalSeverity(SelectedForm(v))
           /\ valid => Val(returned) = CanonicalSeverity(classify_severity(value)[2])
           /\ ~valid => Val(returned) = strip(value)

\* C12's case: normalize_severity("P0/Blocker") has returned "P0"
C12_Witness ==
  /\ called = "normalize_severity"
  /\ value = P0 \o <<"/">> \o <<"B","l","o","c","k","e","r">>
  /\ classify_severity(value) = <<TRUE, lower(P0)>>
  /\ Val(returned) = P0

\* C15: normalize_severity returns each of P0, P1, P2, P3, Info and N/A
\* unchanged, normalize_disposition each of Incorporated, Not Incorporated,
\* Deferred and N/A, and for both functions normalizing a returned value
\* returns it unchanged.
C15_NormalizationIdempotent ==
  /\ called = "normalize_severity" =>
       /\ value \in {P0, P1, P2, P3, Info, NA} => Val(returned) = value
       /\ normalize_severity(Val(returned)) = Val(returned)
  /\ called = "normalize_disposition" =>
       /\ value \in {Incorporated, NotIncorporated, Deferred, NA} => Val(returned) = value
       /\ normalize_disposition(Val(returned)) = Val(returned)

\* C15's case: normalize_severity has mapped a padded compound value to a
\* label other than the value
C15_Witness ==
  /\ called = "normalize_severity"
  /\ Val(returned) = P3
  /\ value # P3
  /\ strip(value) # value

\* C18: every disposition value that classify_disposition accepts is mapped
\* by normalize_disposition to one of Incorporated, Not Incorporated,
\* Deferred and N/A, so that a validated file gives no raw-text disposition.
C18_AcceptedValuesAreCanonical ==
  called = "normalize_disposition" =>
    (classify_disposition(value)[1] =>
       Val(returned) \in {Incorporated, NotIncorporated, Deferred, NA})

\* the lines from a heading to the line before the next table's heading
LinesOf(k) ==
  tables[k].section_header_line ..
    (IF k < Len(tables) THEN tables[k + 1].section_header_line - 1 ELSE len - 1)

\* C14: a headerless table (its heading followed by another heading, by
\* prose or by the end of the file) gives no validator error and no
\* aggregator finding: validate_table returns no error for it, no error of
\* the result names a line of its section, it takes part in no round, no cell
\* of its section is read, and the findings are those of the other tables.
C14_HeaderlessTablesAreSilent ==
  /\ (tool = "validate" /\ t > 0 /\ IsHeaderless(At(tables, t - 1))) => errs = <<>>
  /\ ValidatorRead =>
       \A k \in TableIndices : IsHeaderless(tables[k]) =>
         /\ \A n \in 1..Len(Val(result).errors) : Val(result).errors[n].line - 1 \notin LinesOf(k)
         /\ \A c \in cells_read : c[1] \notin LinesOf(k)
  /\ AggregatorDone =>
       /\ \A k \in TableIndices : IsHeaderless(tables[k]) =>
            /\ \A n \in LogIndices : round_log[n].table # k - 1
            /\ \A c \in cells_read : c[1] \notin LinesOf(k)
       /\ Len(findings) = Cardinality(UNION {WellFormedRows(tb) : tb \in ResolvedTables})

\* C14's case: the validator has passed a file in which a heading is
\* followed by another heading, and validate_table has returned no error for
\* the headerless table
C14_Witness ==
  /\ ValidatorRead
  /\ \E k \in TableIndices :
       /\ IsHeaderless(tables[k])
       /\ tables[k].section_header_line + 1 < len
       /\ DISPOSITION_HEADER_RE(At(lines, tables[k].section_header_line + 1)).matched
  /\ IsHeaderless(At(tables, t - 1))
  /\ errs = <<>>
  /\ Val(result).passed
  /\ Val(result).tables_found > 0

\* the lines that match the disposition heading pattern
HeadingLines == {j \in 0..(len - 1) : DISPOSITION_HEADER_RE(At(lines, j)).matched}

\* C16: every line that matches the heading pattern has exactly one table
\* whose section heading line it is, so there are as many tables as matching
\* lines, in document order, a heading directly after a heading with no table
\* or after a header row with no separator included.
C16_OneTablePerHeadingLine ==
  Located =>
    /\ Len(tables) = Cardinality(HeadingLines)
    /\ \A j \in HeadingLines :
         Cardinality({k \in TableIndices : tables[k].section_header_line = j}) = 1
    /\ \A j, k \in TableIndices :
         j < k => tables[j].section_header_line < tables[k].section_header_line

\* C17: in one file two distinct tables with both columns resolve to the same
\* round number only if both headings carry that number: the round given to
\* a table with no number belongs to no other such table.
C17_UnlabeledRoundsAreUnshared ==
  tool = "aggregate" =>
    \A m, n \in LogIndices :
      (m # n /\ Retained(m) /\ Retained(n) /\ round_log[m].round = round_log[n].round)
        => (~Unlabeled(m) /\ ~Unlabeled(n))

StatsDone == tool = "stats" /\ pc = "stats"
\* the number of findings of a round
TotalOf(rnd) == Cardinality({k \in 1..Len(findings) : findings[k].round = rnd})
\* n is x / y * 100 printed with no decimals: an integer nearest to it
IsPercentOf(n, x, y) == 2 * n * y - 200 * x \in (0 - y)..y

\* C13: the convergence series has the observed rounds in ascending order,
\* each with its total; the first entry has no trend; a later entry is
\* compared with the entry before it in the series: a lower or equal total is
\* a down trend, a higher one an up trend, of |total - prev| / prev * 100
\* percent, and no entry divides by zero.
C13_TrendAgainstPrecedingEntry ==
  StatsDone =>
    /\ {convergence[n].round : n \in 1..Len(convergence)}
         = {findings[k].round : k \in 1..Len(findings)}
    /\ \A n \in 1..Len(convergence) :
         /\ convergence[n].total = TotalOf(convergence[n].round)
         /\ n = 1 => convergence[n].trend = <<"none">>
         /\ n > 1 =>
              LET total == convergence[n].total
                  prev == convergence[n - 1].total
                  trend == convergence[n].trend
              IN  /\ convergence[n - 1].round < convergence[n].round
                  /\ prev > 0
                  /\ Len(trend) = 2
                  /\ trend[1] = (IF total <= prev THEN "down" ELSE "up")
                  /\ IsPercentOf(trend[2], IF total <= prev THEN prev - total
                                           ELSE total - prev, prev)

\* C13's case: 10 findings of round 1 and 4 of round 4, round 2 not observed
\* and round 4 first in the list: no trend for round 1, 60% down for round 4
C13_Witness ==
  /\ StatsDone
  /\ findings # <<>>
  /\ findings[1].round = 4
  /\ Len(convergence) = 2
  /\ convergence[1].round = 1 /\ convergence[1].total = 10
  /\ convergence[1].trend = <<"none">>
  /\ convergence[2].round = 4 /\ convergence[2].total = 4
  /\ convergence[2].trend = <<"down", 60>>

====
